---- MODULE Spec2Model ----
(***************************************************************************)
(* Model of dashboard_project/app.py: the sales dashboard's data loader,   *)
(* its three Dash callbacks (update_charts, reset_filters, export_csv) and *)
(* the filter / aggregation pipeline they run over the base table df.      *)
(*                                                                         *)
(* Time: a timestamp is an integer number of ticks, TicksPerDay ticks to a *)
(* calendar day; a calendar date is a day number.  Day 0 is a Monday.      *)
(* A table is [cols |-> sequence of column names, rows |-> sequence of     *)
(* rows], a row being a function from the table's column names to values.  *)
(***************************************************************************)
EXTENDS Integers, Sequences, FiniteSets, TLC

VARIABLES pc, files, df, controls, pending, out

vars == <<pc, files, df, controls, pending, out>>

(* ---------------- bounds of the model ---------------- *)
MaxRows == 2
MaxDay == 1
MaxCountries == 4
ExtraProducts == 1
MaxTies == 2
MaxClicks == 1

(* ---------------- granularity of the calendar ---------------- *)
TicksPerDay == 2
DaysPerMonth == 2

(* ---------------- program constants ---------------- *)
TopN == 10
DefaultPreview == 10
MaxPreview == 200
AllCountriesLimit == 3

(* ---------------- sentinels ---------------- *)
NaT == -1
NoDate == -1
NoClicks == -1
NaN == ""

(* ---------------- generic helpers ---------------- *)
Range(s) == {s[i] : i \in 1..Len(s)}

Min2(a, b) == IF a <= b THEN a ELSE b

Max2(a, b) == IF a >= b THEN a ELSE b

SetMin(S) == CHOOSE x \in S : \A y \in S : x <= y

SetMax(S) == CHOOSE x \in S : \A y \in S : x >= y

RECURSIVE SumRevenue(_)
SumRevenue(rows) ==
    IF rows = <<>> THEN 0 ELSE rows[1]["revenue"] + SumRevenue(Tail(rows))

\* names in the order Python's sorted() / pandas' sorted group keys give them
NameOrder ==
    <<"Australia", "Brazil", "Canada", "Denmark", "Egypt", "France",
      "Games", "Toys",
      "P01", "P02", "P03", "P04", "P05", "P06", "P07", "P08", "P09", "P10",
      "P11", "P12", "P13", "P14">>

Rank(name) == CHOOSE i \in 1..Len(NameOrder) : NameOrder[i] = name

RECURSIVE SortedNames(_)
SortedNames(S) ==
    IF S = {} THEN <<>>
    ELSE LET m == CHOOSE x \in S : \A y \in S : Rank(x) <= Rank(y)
         IN <<m>> \o SortedNames(S \ {m})

\* DataFrame.head(n): first n rows; for negative n all but the last |n| rows
head(rows, n) ==
    IF n >= 0 THEN SubSeq(rows, 1, Min2(n, Len(rows)))
    ELSE SubSeq(rows, 1, Max2(Len(rows) + n, 0))

(* ---------------- calendar ---------------- *)
Weekdays ==
    <<"Monday", "Tuesday", "Wednesday", "Thursday", "Friday", "Saturday", "Sunday">>

\* Timestamp.date()
DateOf(ts) == ts \div TicksPerDay

\* pd.to_datetime(date): midnight starting that day
ToDatetime(d) == d * TicksPerDay

\* pd.Timedelta(days=1)
OneDay == TicksPerDay

\* Series.dt.hour
HourOf(ts) == (ts % TicksPerDay) * (24 \div TicksPerDay)

\* Series.dt.day_name()
DayName(ts) == Weekdays[(DateOf(ts) % 7) + 1]

\* the monthly bucket of resample("M")
MonthOf(ts) == DateOf(ts) \div DaysPerMonth

(* ---------------- load_data ---------------- *)
NoFile == [exists |-> FALSE, cols |-> <<>>, rows |-> <<>>]

\* c.strip() on a column name
Strip(c) == IF c = "revenue " THEN "revenue" ELSE c

StripCols(cols) == [i \in 1..Len(cols) |-> Strip(cols[i])]

StripRow(cols, r) ==
    [c \in Range(StripCols(cols)) |->
        r[CHOOSE k \in Range(cols) : Strip(k) = c]]

\* lines 33-34: revenue = quantity * price when revenue is absent
WithRevenue(t) ==
    IF "revenue" \notin Range(t.cols) /\ {"quantity", "price"} \subseteq Range(t.cols)
    THEN [cols |-> Append(t.cols, "revenue"),
          rows |-> [i \in 1..Len(t.rows) |->
                      t.rows[i] @@ ("revenue" :> t.rows[i]["quantity"] * t.rows[i]["price"])]]
    ELSE t

\* lines 39-40: order_hour (-1 for a missing date) and order_weekday
WithHourWeekday(t) ==
    [cols |-> t.cols \o <<"order_hour", "order_weekday">>,
     rows |-> [i \in 1..Len(t.rows) |->
                 LET ts == t.rows[i]["order_date"]
                 IN t.rows[i] @@
                    ("order_hour" :> (IF ts = NaT THEN -1 ELSE HourOf(ts))) @@
                    ("order_weekday" :> (IF ts = NaT THEN NaN ELSE DayName(ts)))]]

HasDate(r) == r["order_date"] # NaT

\* line 41: dropna(subset=["order_date"])
DropNaDate(t) == [cols |-> t.cols, rows |-> SelectSeq(t.rows, HasDate)]

\* the file read_csv is given: data/cleaned_sales.csv, else the sample
ChosenFile(fs) == IF fs.data.exists THEN fs.data ELSE fs.sample

\* the exception load_data raises, "" when it returns
LoadError(fs) ==
    IF ~fs.data.exists /\ ~fs.sample.exists THEN "FileNotFoundError"
    ELSE IF "order_date" \notin Range(ChosenFile(fs).cols) THEN "ValueError"
    ELSE ""

load_data(fs) ==
    LET f == ChosenFile(fs)
        stripped == [cols |-> StripCols(f.cols),
                     rows |-> [i \in 1..Len(f.rows) |-> StripRow(f.cols, f.rows[i])]]
    IN DropNaDate(WithHourWeekday(WithRevenue(stripped)))

(* ---------------- module-level defaults ---------------- *)
ColumnValues(t, c) == {t.rows[i][c] : i \in 1..Len(t.rows)}

\* line 46
available_countries(t) == SortedNames(ColumnValues(t, "country") \ {NaN})

\* line 47
available_categories(t) ==
    IF "category" \in Range(t.cols)
    THEN SortedNames(ColumnValues(t, "category") \ {NaN})
    ELSE <<>>

\* a dropdown value: None, a list, or a bare scalar (val is then <<value>>)
None == [kind |-> "none", val |-> <<>>]

List(s) == [kind |-> "list", val |-> s]

Scalar(x) == [kind |-> "scalar", val |-> <<x>>]

\* Python truthiness of a dropdown value
Truthy(sel) == sel.kind # "none" /\ sel.val # <<>>

MinDate(t) == DateOf(SetMin(ColumnValues(t, "order_date")))

MaxDate(t) == DateOf(SetMax(ColumnValues(t, "order_date")))

\* lines 72, 284, 288
DefaultCountries(t) ==
    IF Len(available_countries(t)) <= AllCountriesLimit
    THEN List(available_countries(t))
    ELSE List(<<available_countries(t)[1]>>)

\* lines 77, 285, 289
DefaultCategories(t) ==
    IF available_categories(t) # <<>> THEN List(<<>>) ELSE None

\* the initial values of the controls in the layout (lines 71-86)
LayoutDefaults(t) ==
    [countries |-> DefaultCountries(t),
     categories |-> DefaultCategories(t),
     start_date |-> MinDate(t),
     end_date |-> MaxDate(t)]

(* ---------------- the filter step ---------------- *)
\* "if not isinstance(x, list): x = [x]", then the members of the list
AsList(sel) == IF sel.kind = "list" THEN sel.val ELSE <<sel.val[1]>>

\* lines 194-197 / 308-311
ByCountry(rows, sel) ==
    LET keep(r) == r["country"] \in Range(AsList(sel))
    IN SelectSeq(rows, keep)

\* lines 198-201 / 312-315
ByCategory(rows, sel) ==
    LET keep(r) == r["category"] \in Range(AsList(sel))
    IN SelectSeq(rows, keep)

\* a variant of update_charts' filter that selects the categories from the
\* unfiltered rows
update_charts_filter_rebased(rows, countries, categories, start_date, end_date) ==
    LET d1 == IF Truthy(countries) THEN ByCountry(rows, countries) ELSE rows
        d2 == IF Truthy(categories) THEN ByCategory(rows, categories) ELSE d1
        fromStart(r) == r["order_date"] >= ToDatetime(start_date)
        d3 == IF start_date # NoDate THEN SelectSeq(d2, fromStart) ELSE d2
        toEnd(r) == r["order_date"] <= ToDatetime(end_date) + OneDay
        d4 == IF end_date # NoDate THEN SelectSeq(d3, toEnd) ELSE d3
    IN d4

\* lines 193-205 of update_charts, applied to rows (dff = df.copy() at first)
update_charts_filter(rows, countries, categories, start_date, end_date) ==
    LET d1 == IF Truthy(countries) THEN ByCountry(rows, countries) ELSE rows
        d2 == IF Truthy(categories) THEN ByCategory(d1, categories) ELSE d1
        fromStart(r) == r["order_date"] >= ToDatetime(start_date)
        d3 == IF start_date # NoDate THEN SelectSeq(d2, fromStart) ELSE d2
        toEnd(r) == r["order_date"] <= ToDatetime(end_date) + OneDay
        d4 == IF end_date # NoDate THEN SelectSeq(d3, toEnd) ELSE d3
    IN d4

\* a variant of export_csv's filter whose end bound is exclusive
export_csv_filter_strict_end(rows, countries, categories, start_date, end_date) ==
    LET d1 == IF Truthy(countries) THEN ByCountry(rows, countries) ELSE rows
        d2 == IF Truthy(categories) THEN ByCategory(d1, categories) ELSE d1
        fromStart(r) == r["order_date"] >= ToDatetime(start_date)
        d3 == IF start_date # NoDate THEN SelectSeq(d2, fromStart) ELSE d2
        toEnd(r) == r["order_date"] < ToDatetime(end_date) + OneDay
        d4 == IF end_date # NoDate THEN SelectSeq(d3, toEnd) ELSE d3
    IN d4

\* lines 307-319 of export_csv
export_csv_filter(rows, countries, categories, start_date, end_date) ==
    LET d1 == IF Truthy(countries) THEN ByCountry(rows, countries) ELSE rows
        d2 == IF Truthy(categories) THEN ByCategory(d1, categories) ELSE d1
        fromStart(r) == r["order_date"] >= ToDatetime(start_date)
        d3 == IF start_date # NoDate THEN SelectSeq(d2, fromStart) ELSE d2
        toEnd(r) == r["order_date"] <= ToDatetime(end_date) + OneDay
        d4 == IF end_date # NoDate THEN SelectSeq(d3, toEnd) ELSE d3
    IN d4

(* ---------------- the aggregation step ---------------- *)
RowValues(rows, c) == {rows[i][c] : i \in 1..Len(rows)}

\* groupby(col)["revenue"].sum(): one [key, revenue] per distinct key
GroupSums(rows, col) ==
    {[key |-> k,
      revenue |-> LET inGroup(r) == r[col] = k
                  IN SumRevenue(SelectSeq(rows, inGroup))]
        : k \in RowValues(rows, col)}

\* sort_values("revenue", ascending=False) with the default, unstable
\* quicksort: every arrangement in non-increasing revenue is a possible
\* result, the order among equal revenues being left to the build
RECURSIVE DescOrders(_)
DescOrders(S) ==
    IF S = {} THEN {<<>>}
    ELSE LET m == SetMax({g.revenue : g \in S})
         IN UNION {{<<g>> \o rest : rest \in DescOrders(S \ {g})}
                      : g \in {x \in S : x.revenue = m}}

\* a variant of the ranking that keeps one entry too many
TopProducts_one_more(rows) ==
    {head(o, TopN + 1) : o \in DescOrders(GroupSums(rows, "product_name"))}

\* line 208: the possible values of top_products
TopProducts(rows) ==
    {head(o, TopN) : o \in DescOrders(GroupSums(rows, "product_name"))}

\* line 214: the possible values of sales_country
SalesCountry(rows) == DescOrders(GroupSums(rows, "country"))

\* lines 219-224: monthly sums from the first to the last month, or the
\* "no data" figure when the resampled series is empty
TimeSeries(rows) ==
    IF rows = <<>> THEN [nodata |-> TRUE, points |-> <<>>]
    ELSE LET months == {MonthOf(rows[i]["order_date"]) : i \in 1..Len(rows)}
             first == SetMin(months)
             last == SetMax(months)
         IN [nodata |-> FALSE,
             points |-> [i \in 1..(last - first + 1) |->
                           [month |-> first + i - 1,
                            revenue |-> LET inMonth(r) ==
                                              MonthOf(r["order_date"]) = first + i - 1
                                        IN SumRevenue(SelectSeq(rows, inMonth))]]]

RECURSIVE SortedInts(_)
SortedInts(S) ==
    IF S = {} THEN <<>> ELSE <<SetMin(S)>> \o SortedInts(S \ {SetMin(S)})

\* lines 227-235: hour x weekday sums, absent cells 0, weekdays in calendar
\* order; the 1x1 zero matrix when the pivot is empty
Heatmap(rows) ==
    IF rows = <<>> THEN [nodata |-> TRUE, y |-> <<>>, x |-> <<>>, z |-> <<<<0>>>>]
    ELSE LET hours == SortedInts(RowValues(rows, "order_hour"))
             present(w) == w \in RowValues(rows, "order_weekday")
             days == SelectSeq(Weekdays, present)
         IN [nodata |-> FALSE, y |-> hours, x |-> days,
             z |-> [i \in 1..Len(hours) |->
                     [j \in 1..Len(days) |->
                        LET inCell(r) == r["order_hour"] = hours[i]
                                         /\ r["order_weekday"] = days[j]
                        IN SumRevenue(SelectSeq(rows, inCell))]]]

\* line 239
TotalOrders(cols, rows) ==
    IF "order_id" \in Range(cols) THEN Cardinality(RowValues(rows, "order_id"))
    ELSE Len(rows)

\* line 240: the quotient total_revenue / total_orders, or 0
Aov(total_revenue, total_orders) ==
    IF total_orders # 0 THEN [num |-> total_revenue, den |-> total_orders]
    ELSE [num |-> 0, den |-> 1]

\* line 241
UniqueProducts(cols, rows) ==
    IF "product_id" \in Range(cols) THEN Cardinality(RowValues(rows, "product_id"))
    ELSE Cardinality(RowValues(rows, "product_name"))

\* the preview-rows value: None, a number, or a text int() rejects
NoPreview == [kind |-> "none", val |-> 0]

IntPreview(n) == [kind |-> "int", val |-> n]

BadPreview == [kind |-> "bad", val |-> 0]

\* lines 255-258
NPreview(preview_rows) ==
    IF preview_rows.kind = "bad" THEN DefaultPreview
    ELSE IF preview_rows.kind = "int" /\ preview_rows.val # 0 THEN preview_rows.val
    ELSE DefaultPreview

\* str(date) or "-"
DateText(d) == [text |-> "date", day |-> d]

Unavailable == [text |-> "-", day |-> 0]

Idle == [handler |-> "none", error |-> ""]

\* lines 207-269: the bundle update_charts returns for the subset dff, given
\* the arrangements tp and sc the two sorts produced
Bundle(cols, dff, preview_rows, tp, sc) ==
    LET total_revenue == SumRevenue(dff)
        total_orders == TotalOrders(cols, dff)
    IN [handler |-> "update_charts", error |-> "",
        preview_rows |-> preview_rows,
        dff |-> dff,
        top_products |-> tp,
        sales_country |-> sc,
        time_series |-> TimeSeries(dff),
        heatmap |-> Heatmap(dff),
        total_revenue |-> total_revenue,
        total_orders |-> total_orders,
        aov |-> Aov(total_revenue, total_orders),
        unique_products |-> UniqueProducts(cols, dff),
        table_columns |-> cols,
        table_data |-> head(dff, NPreview(preview_rows)),
        total_rows |-> Len(dff),
        start_dt |-> IF dff # <<>>
                     THEN DateText(DateOf(SetMin(RowValues(dff, "order_date"))))
                     ELSE Unavailable,
        end_dt |-> IF dff # <<>>
                   THEN DateText(DateOf(SetMax(RowValues(dff, "order_date"))))
                   ELSE Unavailable,
        countries_count |-> Cardinality(RowValues(dff, "country"))]

\* line 208 on a table without a revenue column
KeyErrorOut == [handler |-> "update_charts", error |-> "KeyError"]

(* ---------------- reset_filters and export_csv ---------------- *)
\* "if not n_clicks"
NeverFired(n_clicks) == n_clicks = NoClicks \/ n_clicks = 0

\* a variant of reset_filters that keeps all countries only below the limit
reset_filters_below_limit(t, n_clicks) ==
    [update |-> "values",
     values |-> [countries |-> IF Len(available_countries(t)) < AllCountriesLimit
                               THEN List(available_countries(t))
                               ELSE List(<<available_countries(t)[1]>>),
                 categories |-> IF available_categories(t) # <<>> THEN List(<<>>) ELSE None,
                 start_date |-> MinDate(t),
                 end_date |-> MaxDate(t)]]

\* lines 280-291: what reset_filters returns, "values" for the four control
\* values ("no_update" would stand for dash.no_update / PreventUpdate, which
\* neither branch produces)
reset_filters(t, n_clicks) ==
    IF NeverFired(n_clicks)
    THEN [update |-> "values",
          values |-> [countries |-> IF Len(available_countries(t)) <= AllCountriesLimit
                                    THEN List(available_countries(t))
                                    ELSE List(<<available_countries(t)[1]>>),
                      categories |-> IF available_categories(t) # <<>>
                                     THEN List(<<>>) ELSE None,
                      start_date |-> MinDate(t),
                      end_date |-> MaxDate(t)]]
    ELSE [update |-> "values",
          values |-> [countries |-> IF Len(available_countries(t)) <= AllCountriesLimit
                                    THEN List(available_countries(t))
                                    ELSE List(<<available_countries(t)[1]>>),
                      categories |-> IF available_categories(t) # <<>>
                                     THEN List(<<>>) ELSE None,
                      start_date |-> MinDate(t),
                      end_date |-> MaxDate(t)]]

\* lines 304-321: PreventUpdate, or the filtered subset sent as CSV without
\* the index column
export_csv(t, n_clicks, countries, categories, start_date, end_date) ==
    IF NeverFired(n_clicks)
    THEN [handler |-> "export_csv", error |-> "PreventUpdate", n_clicks |-> n_clicks]
    ELSE [handler |-> "export_csv", error |-> "", n_clicks |-> n_clicks,
          filename |-> "filtered_sales.csv",
          index |-> FALSE,
          header |-> t.cols,
          records |-> export_csv_filter(t.rows, countries, categories,
                                        start_date, end_date)]

\* a variant in which the handler's selection is written back to df
BaseAfter_aliased(base, dff) == [cols |-> base.cols, rows |-> dff]

\* The module-level df after a handler has run: the handler's dff starts as
\* df.copy() and is only ever rebound to new selections, and no statement
\* assigns to df or writes through to it
BaseAfter(base, dff) == base

(* ---------------- the inputs of the model ---------------- *)
MaxTs == (MaxDay + 1) * TicksPerDay - 1

SeqsUpTo(S, n) == UNION {[1..k -> S] : k \in 1..n}

CsvCols ==
    <<"order_id", "order_date", "product_id", "product_name", "category",
      "country", "quantity", "price", "revenue">>

Without(cols, drop) == LET keep(c) == c \notin drop IN SelectSeq(cols, keep)

CsvRow(id, ts, product, category, country, quantity, price) ==
    [order_id |-> id, order_date |-> ts, product_id |-> Rank(product),
     product_name |-> product, category |-> category, country |-> country,
     quantity |-> quantity, price |-> price, revenue |-> quantity * price]

Csv(cols, rows) ==
    [exists |-> TRUE, cols |-> cols,
     rows |-> [i \in 1..Len(rows) |-> [c \in Range(cols) |-> rows[i][c]]]]

NoCategoryCols == Without(CsvCols, {"category"})

\* rows that differ in their timestamps
DateTables ==
    {Csv(NoCategoryCols,
         [i \in 1..Len(ts) |-> CsvRow(i, ts[i], "P01", NaN, "Canada", 1, 1)])
        : ts \in SeqsUpTo(0..MaxTs, MaxRows)}

\* rows that differ in country and category
PlaceTables ==
    {Csv(CsvCols,
         [i \in 1..Len(cc) |-> CsvRow(i, 0, "P01", cc[i][2], cc[i][1], 1, 1)])
        : cc \in SeqsUpTo({"Canada", "France"} \X {"Games", "Toys"}, MaxRows)}

\* 1..MaxCountries distinct countries, in ascending or descending name order
CountryTables ==
    {Csv(NoCategoryCols,
         [i \in 1..n |->
            CsvRow(i, (i - 1) % (MaxTs + 1), "P01", NaN,
                   NameOrder[IF up THEN i ELSE n + 1 - i], i, 1)])
        : n \in 1..MaxCountries, up \in BOOLEAN}

FirstProduct == Rank("P01")

NProducts == TopN + ExtraProducts

\* more products than the ranking holds, the t cheapest with equal revenue
ProductTables ==
    {Csv(NoCategoryCols,
         [i \in 1..NProducts |->
            LET j == IF up THEN i ELSE NProducts + 1 - i
            IN CsvRow(i, 0, NameOrder[FirstProduct + j - 1], NaN, "Canada",
                      IF j <= t THEN 1 ELSE j, 1)])
        : t \in 1..MaxTies, up \in BOOLEAN}

\* rows that differ in product and revenue
SalesTables ==
    {Csv(NoCategoryCols,
         [i \in 1..Len(pr) |-> CsvRow(i, 0, pr[i][1], NaN, "Canada", pr[i][2], 1)])
        : pr \in SeqsUpTo({"P01", "P02"} \X {1, 2}, MaxRows)}

\* one table under different column sets; a row without a date, a repeated
\* order id and a missing category
MixedRows ==
    <<CsvRow(1, 1, "P02", "Toys", "France", 3, 2),
      CsvRow(2, NaT, "P01", "Games", "Canada", 1, 1),
      CsvRow(3, MaxTs, "P01", NaN, "Canada", 2, 2),
      CsvRow(3, MaxTs, "P02", "Games", "Canada", 1, 5)>>

PaddedRevenue ==
    [exists |-> TRUE,
     cols |-> Without(CsvCols, {"revenue"}) \o <<"revenue ">>,
     rows |-> [i \in 1..Len(MixedRows) |->
                 [c \in Range(Without(CsvCols, {"revenue"})) \cup {"revenue "} |->
                     IF c = "revenue " THEN MixedRows[i]["revenue"]
                     ELSE MixedRows[i][c]]]]

ColumnTables ==
    {Csv(Without(CsvCols, drop), MixedRows)
        : drop \in {{}, {"revenue"}, {"revenue", "price"}, {"revenue", "quantity"},
                    {"revenue", "quantity", "price"}, {"order_id"}, {"product_id"},
                    {"category"}, {"order_date"}}}
    \cup {PaddedRevenue}

Files ==
    {[data |-> f, sample |-> NoFile]
        : f \in DateTables \cup PlaceTables \cup CountryTables \cup ProductTables
                \cup SalesTables \cup ColumnTables}
    \cup {[data |-> NoFile, sample |-> Csv(CsvCols, MixedRows)],
          [data |-> NoFile, sample |-> NoFile]}

\* what the dropdowns and the date picker can be set to
Choices(options) ==
    IF options = <<>> THEN {}
    ELSE {List(<<>>), List(options), Scalar(options[1])}
         \cup {List(<<options[i]>>) : i \in 1..Len(options)}

DateChoices(t) == {NoDate} \cup (MinDate(t)..MaxDate(t))

Clicks == {NoClicks} \cup (0..MaxClicks)

PreviewInputs ==
    {NoPreview, BadPreview, IntPreview(-1), IntPreview(0), IntPreview(1),
     IntPreview(MaxPreview), IntPreview(MaxPreview + 1)}

(* ---------------- the state machine ---------------- *)
NoTable == [cols |-> <<>>, rows |-> <<>>]

NoControls ==
    [countries |-> None, categories |-> None, start_date |-> NoDate, end_date |-> NoDate]

Init ==
    /\ pc = "start"
    /\ files \in Files
    /\ df = NoTable
    /\ controls = NoControls
    /\ pending = FALSE
    /\ out = Idle

\* line 43 and the layout: df = load_data(), the controls at their defaults,
\* Dash's initial call of update_charts outstanding
Load ==
    /\ pc = "start"
    /\ IF LoadError(files) # ""
       THEN /\ pc' = "aborted"
            /\ out' = [handler |-> "load_data", error |-> LoadError(files)]
            /\ UNCHANGED <<df, controls, pending>>
       ELSE /\ pc' = "ready"
            /\ df' = load_data(files)
            /\ controls' = LayoutDefaults(load_data(files))
            /\ pending' = TRUE
            /\ out' = Idle
    /\ UNCHANGED files

\* the user changes one control; the change is an Input of update_charts,
\* whose call is then outstanding
Select(field, value) ==
    /\ controls[field] # value
    /\ controls' = [controls EXCEPT ![field] = value]
    /\ pending' = TRUE
    /\ out' = Idle
    /\ UNCHANGED <<pc, files, df>>

SelectCountries ==
    /\ pc = "ready"
    /\ ~pending
    /\ out = Idle
    /\ \E v \in Choices(available_countries(df)) : Select("countries", v)

SelectCategories ==
    /\ pc = "ready"
    /\ ~pending
    /\ out = Idle
    /\ \E v \in Choices(available_categories(df)) : Select("categories", v)

SelectStartDate ==
    /\ pc = "ready"
    /\ ~pending
    /\ out = Idle
    /\ \E v \in DateChoices(df) : Select("start_date", v)

SelectEndDate ==
    /\ pc = "ready"
    /\ ~pending
    /\ out = Idle
    /\ \E v \in DateChoices(df) : Select("end_date", v)

\* update_charts, called with the controls' values and the preview-rows State
UpdateCharts ==
    /\ pc = "ready"
    /\ pending
    /\ LET dff == update_charts_filter(df.rows, controls.countries, controls.categories,
                                       controls.start_date, controls.end_date)
       IN /\ IF "revenue" \notin Range(df.cols)
             THEN out' = KeyErrorOut
             ELSE \E preview_rows \in PreviewInputs :
                  \E tp \in TopProducts(dff) :
                  \E sc \in SalesCountry(dff) :
                     out' = Bundle(df.cols, dff, preview_rows, tp, sc)
          /\ df' = BaseAfter(df, dff)
    /\ pending' = FALSE
    /\ UNCHANGED <<pc, files, controls>>

\* reset_filters: its outputs are the controls' values, which are Inputs of
\* update_charts
ResetFilters ==
    /\ pc = "ready"
    /\ ~pending
    /\ out = Idle
    /\ \E n_clicks \in Clicks :
          LET r == reset_filters(df, n_clicks)
          IN /\ out' = [handler |-> "reset_filters", error |-> "",
                        n_clicks |-> n_clicks, update |-> r.update,
                        values |-> r.values]
             /\ IF r.update = "values"
                THEN controls' = r.values /\ pending' = TRUE
                ELSE UNCHANGED <<controls, pending>>
    /\ df' = BaseAfter(df, df.rows)
    /\ UNCHANGED <<pc, files>>

\* export_csv, called with the controls' values as State
ExportCsv ==
    /\ pc = "ready"
    /\ ~pending
    /\ out = Idle
    /\ \E n_clicks \in Clicks :
          out' = export_csv(df, n_clicks, controls.countries, controls.categories,
                            controls.start_date, controls.end_date)
    /\ df' = BaseAfter(df, IF out'.error = "" THEN out'.records ELSE df.rows)
    /\ UNCHANGED <<pc, files, controls, pending>>

\* the browser has applied a callback's outputs; the next interaction can
\* start (one synchronous computation per interaction)
Render ==
    /\ pc = "ready"
    /\ ~pending
    /\ out # Idle
    /\ out' = Idle
    /\ UNCHANGED <<pc, files, df, controls, pending>>

Next ==
    \/ Load
    \/ SelectCountries
    \/ SelectCategories
    \/ SelectStartDate
    \/ SelectEndDate
    \/ UpdateCharts
    \/ ResetFilters
    \/ ExportCsv
    \/ Render

Spec == Init /\ [][Next]_vars

(* ---------------- properties ---------------- *)
\* update_charts has returned a bundle for the controls as they stand
Charted == pc = "ready" /\ ~pending /\ out.handler = "update_charts" /\ out.error = ""

\* export_csv has sent a file for the controls as they stand
Exported == pc = "ready" /\ ~pending /\ out.handler = "export_csv" /\ out.error = ""

\* a reset has just returned
Reset == pc = "ready" /\ out.handler = "reset_filters"

ProductSum(rows, p) ==
    LET ofProduct(r) == r["product_name"] = p IN SumRevenue(SelectSeq(rows, ofProduct))

FirstSeen(rows, p) ==
    CHOOSE i \in 1..Len(rows) :
        /\ rows[i]["product_name"] = p
        /\ \A k \in 1..(i - 1) : rows[k]["product_name"] # p

\* the rows of df that meet the country, category and start-date constraints
\* of the controls
MeetsOthers(r) ==
    /\ Truthy(controls.countries) => r["country"] \in Range(controls.countries.val)
    /\ Truthy(controls.categories) => r["category"] \in Range(controls.categories.val)
    /\ controls.start_date # NoDate => r["order_date"] >= ToDatetime(controls.start_date)

BeforeEndOfDay(r) == r["order_date"] < ToDatetime(controls.end_date) + OneDay

KeptExactlyBeforeEndOfDay(rows) ==
    LET wanted(r) == MeetsOthers(r) /\ BeforeEndOfDay(r)
    IN rows = SelectSeq(df.rows, wanted)

\* C1: with end_date set, update_charts and export_csv keep a record exactly
\* when order_date < end_date + 1 day: everything on the end day is kept and
\* everything from the next midnight on (that midnight included) is dropped.
C1_EndDayWindow ==
    /\ (Charted /\ controls.end_date # NoDate) => KeptExactlyBeforeEndOfDay(out.dff)
    /\ (Exported /\ controls.end_date # NoDate) => KeptExactlyBeforeEndOfDay(out.records)

\* C2: a reset or an export invoked while its trigger has never fired has no
\* effect: reset_filters reports "no change to apply" and export_csv sends
\* no file.
C2_NeverFiredNoEffect ==
    /\ (Reset /\ NeverFired(out.n_clicks)) => out.update = "no_update"
    /\ (pc = "ready" /\ out.handler = "export_csv" /\ NeverFired(out.n_clicks))
          => out.error = "PreventUpdate"

\* the N of claim C3 for a preview-rows value
ClaimedN(preview_rows) ==
    IF preview_rows.kind = "int" /\ preview_rows.val >= 1 /\ preview_rows.val <= MaxPreview
    THEN preview_rows.val
    ELSE DefaultPreview

\* C3: the preview is the first N records of the subset, N being the
\* supplied count when it is in 1..200 and 10 otherwise; it never holds more
\* than 200 records.
C3_PreviewFirstN ==
    Charted =>
        /\ out.table_data = SubSeq(out.dff, 1, Min2(ClaimedN(out.preview_rows), Len(out.dff)))
        /\ Len(out.table_data) <= MaxPreview

\* the subset the controls select from df is empty
EmptySelection ==
    update_charts_filter(df.rows, controls.countries, controls.categories,
                         controls.start_date, controls.end_date) = <<>>

\* C4: on an empty subset update_charts does not fail and returns the
\* complete bundle of zeros, empty rankings and "no data" / "unavailable"
\* markers.
C4_EmptySubsetBundle ==
    (pc = "ready" /\ ~pending /\ out.handler = "update_charts" /\ EmptySelection) =>
        /\ out.error = ""
        /\ out.total_revenue = 0
        /\ out.total_orders = 0
        /\ out.unique_products = 0
        /\ out.aov.num = 0
        /\ out.top_products = <<>>
        /\ out.sales_country = <<>>
        /\ out.time_series.nodata
        /\ out.heatmap.nodata /\ out.heatmap.z = <<<<0>>>>
        /\ out.total_rows = 0
        /\ out.start_dt = Unavailable /\ out.end_dt = Unavailable

\* On a base table that has its revenue column the empty subset does yield
\* that bundle: the failure of C4 comes with the tables of C6 only.
EmptySubsetBundleGivenRevenue ==
    ("revenue" \in Range(df.cols)) => C4_EmptySubsetBundle

BaseCountries == {df.rows[i]["country"] : i \in 1..Len(df.rows)}

BaseDates == {DateOf(df.rows[i]["order_date"]) : i \in 1..Len(df.rows)}

\* C5: a fired reset outputs the default specification of the base table:
\* all its countries when there are at most 3, else only the first in sorted
\* order; no category constraint; the first and last order dates.
C5_ResetDefaults ==
    (Reset /\ ~NeverFired(out.n_clicks)) =>
        /\ out.update = "values"
        /\ out.values.countries.kind = "list"
        /\ LET cs == out.values.countries.val
           IN IF Cardinality(BaseCountries) <= AllCountriesLimit
              THEN Range(cs) = BaseCountries /\ Len(cs) = Cardinality(BaseCountries)
              ELSE /\ Len(cs) = 1
                   /\ cs[1] \in BaseCountries
                   /\ \A c \in BaseCountries : Rank(cs[1]) <= Rank(c)
        /\ ~Truthy(out.values.categories)
        /\ out.values.start_date \in BaseDates
        /\ \A d \in BaseDates : out.values.start_date <= d
        /\ out.values.end_date \in BaseDates
        /\ \A d \in BaseDates : out.values.end_date >= d
        /\ controls = out.values

C5_Witness ==
    /\ Reset
    /\ out.n_clicks = MaxClicks
    /\ Cardinality(BaseCountries) > AllCountriesLimit
    /\ Cardinality(BaseDates) > 1

\* a file without revenue and without both quantity and price
LacksRevenue(f) ==
    /\ "revenue" \notin Range(StripCols(f.cols))
    /\ ~({"quantity", "price"} \subseteq Range(StripCols(f.cols)))

\* C6: when the loaded file has no revenue and not both quantity and price,
\* load_data fails and startup aborts; no handler runs on such a table.
C6_LoadRejectsMissingRevenue ==
    ((files.data.exists \/ files.sample.exists) /\ LacksRevenue(ChosenFile(files)))
        => pc # "ready"

\* the ranking is the per-product sums in non-increasing order, cut at TopN
RankedTopN(rows, tp) ==
    LET products == {rows[i]["product_name"] : i \in 1..Len(rows)}
        listed == {tp[i].key : i \in 1..Len(tp)}
    IN /\ Len(tp) = Min2(TopN, Cardinality(products))
       /\ Cardinality(listed) = Len(tp)
       /\ \A i \in 1..Len(tp) :
             tp[i].key \in products /\ tp[i].revenue = ProductSum(rows, tp[i].key)
       /\ \A i \in 1..Len(tp) : \A j \in (i + 1)..Len(tp) :
             tp[i].revenue >= tp[j].revenue
       /\ \A p \in products \ listed : \A i \in 1..Len(tp) :
             tp[i].revenue >= ProductSum(rows, p)

\* equal sums come in the order their products are first met in the subset,
\* within the ranking and across its cut
TiesInFirstSeenOrder(rows, tp) ==
    LET products == {rows[i]["product_name"] : i \in 1..Len(rows)}
        listed == {tp[i].key : i \in 1..Len(tp)}
    IN /\ \A i \in 1..Len(tp) : \A j \in (i + 1)..Len(tp) :
             tp[i].revenue = tp[j].revenue
                => FirstSeen(rows, tp[i].key) < FirstSeen(rows, tp[j].key)
       /\ \A p \in products \ listed : \A i \in 1..Len(tp) :
             tp[i].revenue = ProductSum(rows, p)
                => FirstSeen(rows, tp[i].key) < FirstSeen(rows, p)

\* C7 as stated: the top products are the per-product sums, descending, cut
\* at 10, equal sums in first-encountered order, across the cut as well.
C7_StableTopProducts ==
    Charted => RankedTopN(out.dff, out.top_products)
               /\ TiesInFirstSeenOrder(out.dff, out.top_products)

\* C7 as amended: the top products are the per-product sums, descending, cut
\* at 10; the order among equal sums, and which of them fall before the cut,
\* is not determined.
C7_TopProductsRanked == Charted => RankedTopN(out.dff, out.top_products)

C7_Witness ==
    /\ Charted
    /\ Len(out.top_products) = TopN
    /\ \E i \in 1..Len(out.dff) :
          /\ \A k \in 1..TopN : out.top_products[k].key # out.dff[i]["product_name"]
          /\ out.top_products[TopN].revenue = out.dff[i]["revenue"]

\* C8: a fired export sends exactly the records update_charts' filter step
\* yields for the same controls, in the same order, with all the columns of
\* the base table and no index column.
C8_ExportIsFilteredSubset ==
    /\ (pc = "ready" /\ out.handler = "export_csv" /\ ~NeverFired(out.n_clicks))
          => out.error = ""
    /\ Exported =>
          /\ out.records = update_charts_filter(df.rows, controls.countries,
                                                controls.categories,
                                                controls.start_date, controls.end_date)
          /\ out.header = df.cols
          /\ out.index = FALSE
          /\ \A i \in 1..Len(out.records) : DOMAIN out.records[i] = Range(df.cols)

C8_Witness ==
    /\ Exported
    /\ out.records # <<>>
    /\ Len(out.records) < Len(df.rows)
    /\ controls.end_date # NoDate
    /\ Truthy(controls.countries)

CountriesOnly(rows) == update_charts_filter(rows, controls.countries, None, NoDate, NoDate)

CategoriesOnly(rows) == update_charts_filter(rows, None, controls.categories, NoDate, NoDate)

\* C9: filtering by the countries and then filtering the result by the
\* categories gives the subset that filtering once by both gives; an empty or
\* absent constraint removes no record.
C9_ConjunctiveFilter ==
    pc = "ready" =>
        /\ CategoriesOnly(CountriesOnly(df.rows))
              = update_charts_filter(df.rows, controls.countries, controls.categories,
                                     NoDate, NoDate)
        /\ \A empty \in {None, List(<<>>)} :
              /\ update_charts_filter(df.rows, empty, controls.categories, NoDate, NoDate)
                    = CategoriesOnly(df.rows)
              /\ update_charts_filter(df.rows, controls.countries, empty, NoDate, NoDate)
                    = CountriesOnly(df.rows)
              /\ update_charts_filter(df.rows, empty, empty, NoDate, NoDate) = df.rows

C9_Witness ==
    /\ Charted
    /\ Truthy(controls.countries)
    /\ Truthy(controls.categories)
    /\ Len(CountriesOnly(df.rows)) < Len(df.rows)
    /\ Len(CategoriesOnly(df.rows)) < Len(df.rows)
    /\ Len(CategoriesOnly(CountriesOnly(df.rows))) < Len(CountriesOnly(df.rows))
    /\ CategoriesOnly(CountriesOnly(df.rows)) # <<>>

====
